---- MODULE Spec2Model ----
(***************************************************************************)
(* A model of the two plotting scripts of arvados/lightning:               *)
(*   manhattan.py  joins tile p-values with tile positions, sorts them by  *)
(*                 chromosome, optionally exports the significant ones and *)
(*                 draws one plot per chromosome plus one for all of them; *)
(*   plot.py       labels samples from phenotype records and colours them. *)
(*                                                                         *)
(* Text is modelled as a tuple of one-character strings, so that lstrip,   *)
(* zfill, rsplit, the substring test and the code-point comparison of      *)
(* strings are computed as Python computes them.                           *)
(* A p-value pow(10, -raw/1000000) is represented by its exponent          *)
(* raw (in millionths of a decade): pow(10, -x) is strictly decreasing, so *)
(* p < q  iff  exponent(p) > exponent(q).                                  *)
(***************************************************************************)
EXTENDS Integers, Sequences, FiniteSets, TLC

VARIABLES
    \* ---- manhattan.py ----
    columns,          \* input: onehot-columns.npy, a sequence of [tag, raw]
    dirents,          \* input: the directory, a sequence of [name, rows]
    csv_threshold,    \* input: argv[3], as a number
    csv_output_path,  \* input: argv[4]
    output_path,      \* input: argv[2]
    pc,               \* position in the script
    pvalue,           \* dict tag -> list of p-values
    tilepos,          \* dict tag -> (chromosome, position)
    scanned,          \* directory entries already visited, in visiting order
    csvfile,          \* the export file: [opened, lines]
    series,           \* the three columns #CHROM, POS, P as a sequence of rows
    chroms,           \* dict chromosome-or-None -> True
    plotted,          \* plot units attempted so far: [chrom, file, ok]
    \* ---- plot.py ----
    samplelist,       \* input: the rows of the samples file
    samples,          \* sample identifiers, in file order
    phenotype,        \* input: phenotype rows, all files, in reading order
    cat1col,          \* input: phenotype_cat1_column
    cat2col,          \* input: phenotype_cat2_column
    ppc,              \* position in the script
    nread,            \* number of phenotype rows processed
    labels,           \* dict sampleid -> label
    category,         \* dict sampleid -> True
    colors,           \* list of colours, one per sample
    points            \* the scatter calls: [marker, idx, c]

mvars == <<columns, dirents, csv_threshold, csv_output_path, output_path,
           pc, pvalue, tilepos, scanned, csvfile, series, chroms,
           plotted>>
pvars == <<samplelist, samples, phenotype, cat1col, cat2col, ppc, nread,
           labels, category, colors, points>>
vars == <<mvars, pvars>>

-----------------------------------------------------------------------------
(* Python values *)

\* A Python dict: the keys in insertion order, and the value of each key.
\* Assigning to a key that is present keeps its place in the order.
EmptyDict == <<>>

DictHas(d, k) == \E i \in 1..Len(d) : d[i][1] = k

DictGet(d, k, default) ==
    IF DictHas(d, k)
    THEN d[CHOOSE i \in 1..Len(d) : d[i][1] = k][2]
    ELSE default

DictSet(d, k, v) ==
    IF DictHas(d, k)
    THEN [i \in 1..Len(d) |-> IF d[i][1] = k THEN <<k, v>> ELSE d[i]]
    ELSE Append(d, <<k, v>>)

DictKeys(d) == [i \in 1..Len(d) |-> d[i][1]]

\* The code point of a character (ASCII), for the characters used here.
Ord(ch) ==
    CASE ch = "*" -> 42  [] ch = "+" -> 43  [] ch = "-" -> 45
      [] ch = "." -> 46  [] ch = "/" -> 47
      [] ch = "0" -> 48  [] ch = "1" -> 49  [] ch = "2" -> 50
      [] ch = "3" -> 51  [] ch = "4" -> 52  [] ch = "5" -> 53
      [] ch = "6" -> 54  [] ch = "7" -> 55  [] ch = "8" -> 56
      [] ch = "9" -> 57
      [] ch = "G" -> 71  [] ch = "H" -> 72  [] ch = "M" -> 77
      [] ch = "N" -> 78  [] ch = "X" -> 88  [] ch = "Y" -> 89
      [] ch = "_" -> 95
      [] ch = "a" -> 97  [] ch = "c" -> 99  [] ch = "g" -> 103
      [] ch = "h" -> 104 [] ch = "i" -> 105 [] ch = "n" -> 110
      [] ch = "o" -> 111 [] ch = "p" -> 112 [] ch = "r" -> 114
      [] ch = "s" -> 115 [] ch = "t" -> 116 [] ch = "u" -> 117
      [] ch = "v" -> 118 [] ch = "x" -> 120

\* s < t for Python strings: lexicographic by code point.
StrLess(s, t) ==
    \E i \in 1..Len(t) :
        /\ \A j \in 1..(i - 1) : j <= Len(s) /\ s[j] = t[j]
        /\ \/ i > Len(s)
           \/ Ord(s[i]) < Ord(t[i])

\* s.lstrip(chars): drops every leading character that is in the set chars.
RECURSIVE LStrip(_, _)
LStrip(s, chars) ==
    IF s # <<>> /\ Head(s) \in chars THEN LStrip(Tail(s), chars) ELSE s

Zeros(n) == [i \in 1..n |-> "0"]

\* zfill left out: the variant without padding
ZFillNoPad(s, width) == s

\* s.zfill(width): pads with zeros on the left, after a leading sign.
ZFill(s, width) ==
    IF Len(s) >= width THEN s
    ELSE IF s # <<>> /\ Head(s) \in {"+", "-"}
         THEN <<Head(s)>> \o Zeros(width - Len(s)) \o Tail(s)
         ELSE Zeros(width - Len(s)) \o s

\* s.endswith(suffix)
EndsWith(s, suffix) ==
    /\ Len(s) >= Len(suffix)
    /\ SubSeq(s, Len(s) - Len(suffix) + 1, Len(s)) = suffix

\* the variant that matches whole identifiers only
StrInExact(needle, haystack) == needle = haystack

\* needle in haystack, for strings
StrIn(needle, haystack) ==
    \E i \in 1..(Len(haystack) - Len(needle) + 1) :
        SubSeq(haystack, i, i + Len(needle) - 1) = needle

\* row[i] with Python's indexing: from 0, and from the end when negative.
PyIndex(row, i) == IF i >= 0 THEN row[i + 1] ELSE row[Len(row) + i + 1]

RECURSIVE Concat(_)
Concat(ss) == IF ss = <<>> THEN <<>> ELSE Head(ss) \o Concat(Tail(ss))

-----------------------------------------------------------------------------
(* manhattan.py *)

\* int(text) for a decimal numeral
RECURSIVE PyInt(_)
PyInt(s) ==
    IF s = <<>> THEN 0
    ELSE 10 * PyInt(SubSeq(s, 1, Len(s) - 1)) + (Ord(s[Len(s)]) - Ord("0"))

\* pow(10, -x / 1000000), as the exponent x in millionths
Pow10Neg(micro) == [e |-> micro]

\* the variant with p <= q
PLessOrEqual(p, q) == p.e >= q.e

\* p < q for two such powers of ten
PLess(p, q) == p.e > q.e

\* the variant that keeps only the last score of a tag
PvalueOverwrite(pv, col) == DictSet(pv, col.tag, <<[e |-> col.raw]>>)

\* lines 26-31: one column of the matrix appended to its tag's list
PvalueAppend(pv, col) ==
    DictSet(pv, col.tag, Append(DictGet(pv, col.tag, <<>>), Pow10Neg(col.raw)))

RECURSIVE BuildPvalue(_, _)
BuildPvalue(pv, cols) ==
    IF cols = <<>> THEN pv
    ELSE BuildPvalue(PvalueAppend(pv, Head(cols)), Tail(cols))

AnnotationSuffix ==
    <<".", "a", "n", "n", "o", "t", "a", "t", "i", "o", "n", "s",
      ".", "c", "s", "v">>

\* lines 41-42: one annotation record
TileposRecord(tp, annotation) ==
    IF PyIndex(annotation, 3) = <<"=">>
    THEN DictSet(tp, PyInt(PyIndex(annotation, 0)),
                 <<PyIndex(annotation, 4), PyInt(PyIndex(annotation, 5))>>)
    ELSE tp

RECURSIVE TileposRecords(_, _)
TileposRecords(tp, rows) ==
    IF rows = <<>> THEN tp
    ELSE TileposRecords(TileposRecord(tp, Head(rows)), Tail(rows))

\* lines 37-42: one directory entry
TileposEntry(tp, dirent) ==
    IF EndsWith(dirent.name, AnnotationSuffix)
    THEN TileposRecords(tp, dirent.rows)
    ELSE tp

\* lines 47 and 54: the key of sorted(tilepos.items(), key=...)
\* item = <<tag, <<chromosome, position>>>>
SortKey(item) ==
    <<Ord(item[2][1][Len(item[2][1])]) > Ord("9"),
      ZFill(LStrip(item[2][1], {"c", "h", "r"}), 2),
      item[2][2]>>

\* a < b for two such keys (Python's tuple comparison)
KeyLess(a, b) ==
    IF a[1] # b[1] THEN b[1]
    ELSE IF a[2] # b[2] THEN StrLess(a[2], b[2])
    ELSE a[3] < b[3]

\* sorted(): stable, an item goes after the items whose key is not greater
SortedInsert(sorted, x) ==
    LET n == Cardinality({i \in 1..Len(sorted) :
                             ~KeyLess(SortKey(x), SortKey(sorted[i]))})
    IN SubSeq(sorted, 1, n) \o <<x>> \o SubSeq(sorted, n + 1, Len(sorted))

RECURSIVE Sorted(_)
Sorted(items) ==
    IF items = <<>> THEN <<>>
    ELSE SortedInsert(Sorted(SubSeq(items, 1, Len(items) - 1)),
                      items[Len(items)])

\* lines 48-50: the export lines of one item
ExportItem(item, pv, threshold) ==
    LET ps == DictGet(pv, item[1], <<>>)
        keep(p) == PLess(p, Pow10Neg(threshold * 1000000))
    IN [i \in 1..Len(SelectSeq(ps, keep)) |->
           <<item[1], item[2][1], item[2][2], SelectSeq(ps, keep)[i]>>]

\* lines 47-50
ExportLines(tp, pv, threshold) ==
    LET items == Sorted(tp)
    IN Concat([i \in 1..Len(items) |-> ExportItem(items[i], pv, threshold)])

\* lines 55-58: the rows of one item
SeriesItem(item, pv) ==
    LET ps == DictGet(pv, item[1], <<>>)
    IN [i \in 1..Len(ps) |->
           [chrom |-> item[2][1], pos |-> item[2][2], p |-> ps[i]]]

\* lines 53-58
BuildSeries(tp, pv) ==
    LET items == Sorted(tp)
    IN Concat([i \in 1..Len(items) |-> SeriesItem(items[i], pv)])

\* a key of chroms: a chromosome name, or None
NoneKey == [none |-> TRUE, name |-> <<>>]
NameKey(c) == [none |-> FALSE, name |-> c]
Truthy(k) == ~k.none /\ k.name # <<>>

\* lines 60-63
RECURSIVE ChromsOf(_, _)
ChromsOf(d, rows) ==
    IF rows = <<>> THEN DictSet(d, NoneKey, TRUE)
    ELSE ChromsOf(DictSet(d, NameKey(Head(rows).chrom), TRUE), Tail(rows))

BuildChroms(rows) == ChromsOf(EmptyDict, rows)

\* s.rsplit(sep, 1) for a one-character sep
RSplit1(s, sep) ==
    IF \E i \in 1..Len(s) : s[i] = sep
    THEN LET k == CHOOSE i \in 1..Len(s) :
                     s[i] = sep /\ \A j \in (i + 1)..Len(s) : s[j] # sep
         IN <<SubSeq(s, 1, k - 1), SubSeq(s, k + 1, Len(s))>>
    ELSE <<s>>

\* sep.join(parts)
RECURSIVE Join(_, _)
Join(sep, parts) ==
    IF parts = <<>> THEN <<>>
    ELSE IF Len(parts) = 1 THEN parts[1]
    ELSE parts[1] \o sep \o Join(sep, Tail(parts))

\* lines 67-70
OutputFile(path, chrom) ==
    IF Truthy(chrom)
    THEN Join(<<".">> \o chrom.name \o <<".">>, RSplit1(path, "."))
    ELSE path

\* lines 26-31
MLoad ==
    /\ pc = "load"
    /\ pvalue' = BuildPvalue(EmptyDict, columns)
    /\ pc' = "scan"
    /\ UNCHANGED <<columns, dirents, csv_threshold, csv_output_path,
                   output_path, tilepos, scanned, csvfile, series, chroms,
                   plotted, pvars>>

Unscanned == {d \in 1..Len(dirents) : \A i \in 1..Len(scanned) : scanned[i] # d}

\* lines 36-42, one directory entry; os.scandir yields them in any order
MScan ==
    /\ pc = "scan"
    /\ \E d \in Unscanned :
          /\ tilepos' = TileposEntry(tilepos, dirents[d])
          /\ scanned' = Append(scanned, d)
    /\ UNCHANGED <<columns, dirents, csv_threshold, csv_output_path,
                   output_path, pc, pvalue, csvfile, series, chroms, plotted,
                   pvars>>

\* lines 44-50
MExport ==
    /\ pc = "scan"
    /\ Unscanned = {}
    /\ csvfile' = IF csv_threshold > 0 /\ csv_output_path # <<>>
                  THEN [opened |-> TRUE,
                        lines |-> ExportLines(tilepos, pvalue, csv_threshold)]
                  ELSE csvfile
    /\ pc' = "series"
    /\ UNCHANGED <<columns, dirents, csv_threshold, csv_output_path,
                   output_path, pvalue, tilepos, scanned, series, chroms,
                   plotted, pvars>>

\* lines 53-58
MSeries ==
    /\ pc = "series"
    /\ series' = BuildSeries(tilepos, pvalue)
    /\ pc' = "chroms"
    /\ UNCHANGED <<columns, dirents, csv_threshold, csv_output_path,
                   output_path, pvalue, tilepos, scanned, csvfile, chroms,
                   plotted, pvars>>

\* lines 60-63
MChroms ==
    /\ pc = "chroms"
    /\ chroms' = BuildChroms(series)
    /\ pc' = "plot"
    /\ UNCHANGED <<columns, dirents, csv_threshold, csv_output_path,
                   output_path, pvalue, tilepos, scanned, csvfile, series,
                   plotted, pvars>>

\* the plot unit of the next key of chroms
NextUnit(ok) ==
    LET chrom == DictKeys(chroms)[Len(plotted) + 1]
    IN [chrom |-> chrom, file |-> OutputFile(output_path, chrom), ok |-> ok]

\* lines 66-85, one iteration: the plot is drawn and saved
MPlot ==
    /\ pc = "plot"
    /\ plotted' = Append(plotted, NextUnit(TRUE))
    /\ pc' = IF Len(plotted') = Len(chroms) THEN "done" ELSE "plot"
    /\ UNCHANGED <<columns, dirents, csv_threshold, csv_output_path,
                   output_path, pvalue, tilepos, scanned, csvfile, series,
                   chroms, pvars>>

\* lines 66-85, one iteration: manhattanplot or savefig raises; nothing
\* catches the exception, so the script ends
MPlotRaise ==
    /\ pc = "plot"
    /\ plotted' = Append(plotted, NextUnit(FALSE))
    /\ pc' = "failed"
    /\ UNCHANGED <<columns, dirents, csv_threshold, csv_output_path,
                   output_path, pvalue, tilepos, scanned, csvfile, series,
                   chroms, pvars>>

MNext == MLoad \/ MScan \/ MExport \/ MSeries \/ MChroms \/ MPlot \/ MPlotRaise

-----------------------------------------------------------------------------
(* plot.py *)

\* lines 30-34
RECURSIVE ReadSamples(_)
ReadSamples(rows) ==
    IF rows = <<>> THEN <<>>
    ELSE IF PyIndex(Head(rows), 0) = <<"I", "n", "d", "e", "x">>
         THEN ReadSamples(Tail(rows))
         ELSE <<PyIndex(Head(rows), 1)>> \o ReadSamples(Tail(rows))

\* lines 46-50: the labels after one phenotype row
RECURSIVE RowLabels(_, _, _, _)
RowLabels(lab, smpls, row, c1) ==
    IF smpls = <<>> THEN lab
    ELSE RowLabels(IF StrIn(PyIndex(row, 0), Head(smpls))
                   THEN DictSet(lab, Head(smpls), PyIndex(row, c1))
                   ELSE lab,
                   Tail(smpls), row, c1)

\* lines 46-52: the flags after one phenotype row
RECURSIVE RowCategory(_, _, _, _)
RowCategory(cat, smpls, row, c2) ==
    IF smpls = <<>> THEN cat
    ELSE RowCategory(IF /\ StrIn(PyIndex(row, 0), Head(smpls))
                        /\ c2 >= 0
                        /\ PyIndex(row, c2) # "0"
                     THEN DictSet(cat, Head(smpls), TRUE)
                     ELSE cat,
                     Tail(smpls), row, c2)

\* line 53
unknown_color == "grey"

\* lines 55-87
labelcolors ==
    << <<"PUR", "firebrick">>, <<"CLM", "firebrick">>, <<"MXL", "firebrick">>,
       <<"PEL", "firebrick">>, <<"1", "firebrick">>,
       <<"TSI", "green">>, <<"IBS", "green">>, <<"CEU", "green">>,
       <<"GBR", "green">>, <<"FIN", "green">>, <<"5", "green">>,
       <<"LWK", "coral">>, <<"MSL", "coral">>, <<"GWD", "coral">>,
       <<"YRI", "coral">>, <<"ESN", "coral">>, <<"ACB", "coral">>,
       <<"ASW", "coral">>, <<"4", "coral">>,
       <<"KHV", "royalblue">>, <<"CDX", "royalblue">>, <<"CHS", "royalblue">>,
       <<"CHB", "royalblue">>, <<"JPT", "royalblue">>, <<"2", "royalblue">>,
       <<"STU", "blueviolet">>, <<"ITU", "blueviolet">>,
       <<"BEB", "blueviolet">>, <<"GIH", "blueviolet">>,
       <<"PJL", "blueviolet">>, <<"3", "navy">> >>

\* the variant that falls back only for samples without a label
SampleColorsLabelled(smpls, lab) ==
    [i \in 1..Len(smpls) |->
        IF DictHas(lab, smpls[i])
        THEN DictGet(labelcolors, DictGet(lab, smpls[i], ""), "firebrick")
        ELSE unknown_color]

\* lines 88-92
SampleColors(smpls, lab) ==
    [i \in 1..Len(smpls) |->
        IF /\ DictHas(lab, smpls[i])
           /\ DictHas(labelcolors, DictGet(lab, smpls[i], ""))
        THEN DictGet(labelcolors, DictGet(lab, smpls[i], ""), "")
        ELSE unknown_color]

\* lines 100-110: the samples of one marker, the unknown-coloured ones first
ScatterIdx(marker, smpls, cols, cat) ==
    LET idx == [i \in 1..Len(smpls) |-> i]
        pick(uf) ==
            LET test(i) ==
                    /\ (cols[i] = unknown_color) = uf
                    /\ DictGet(cat, smpls[i], FALSE) = (marker = "x")
            IN SelectSeq(idx, test)
    IN pick(TRUE) \o pick(FALSE)

\* lines 99-117
Scatter(smpls, cols, cat) ==
    [m \in 1..2 |->
        LET marker == <<"o", "x">>[m]
            idx == ScatterIdx(marker, smpls, cols, cat)
        IN [marker |-> marker, idx |-> idx,
            c |-> [k \in 1..Len(idx) |-> cols[idx[k]]]]]

\* lines 29-36
PSamples ==
    /\ ppc = "samples"
    /\ samples' = ReadSamples(samplelist)
    /\ ppc' = "phenotype"
    /\ UNCHANGED <<samplelist, phenotype, cat1col, cat2col, nread, labels,
                   category, colors, points, mvars>>

\* lines 45-52, one phenotype row
PRow ==
    /\ ppc = "phenotype"
    /\ nread < Len(phenotype)
    /\ labels' = RowLabels(labels, samples, phenotype[nread + 1], cat1col)
    /\ category' = RowCategory(category, samples, phenotype[nread + 1], cat2col)
    /\ nread' = nread + 1
    /\ UNCHANGED <<samplelist, samples, phenotype, cat1col, cat2col, ppc,
                   colors, points, mvars>>

\* lines 53-92
PColors ==
    /\ ppc = "phenotype"
    /\ nread = Len(phenotype)
    /\ colors' = SampleColors(samples, labels)
    /\ ppc' = "scatter"
    /\ UNCHANGED <<samplelist, samples, phenotype, cat1col, cat2col, nread,
                   labels, category, points, mvars>>

\* lines 94-119
PScatter ==
    /\ ppc = "scatter"
    /\ points' = Scatter(samples, colors, category)
    /\ ppc' = "done"
    /\ UNCHANGED <<samplelist, samples, phenotype, cat1col, cat2col, nread,
                   labels, category, colors, mvars>>

PNext == PSamples \/ PRow \/ PColors \/ PScatter

-----------------------------------------------------------------------------
(* Inputs *)

MaxCols == 2
MaxRows == 1
MaxTiles == 3
MaxPhen == 2
MaxSamples == 2

SeqsUpTo(S, n) == UNION {[1..k -> S] : k \in 0..n}

chr1 == <<"c", "h", "r", "1">>
chr2 == <<"c", "h", "r", "2">>
chr3 == <<"c", "h", "r", "3">>
chr20 == <<"c", "h", "r", "2", "0">>
chr100 == <<"c", "h", "r", "1", "0", "0">>
chrX == <<"c", "h", "r", "X">>
bare3 == <<"3">>
chr2dot == <<"c", "h", "r", "2", ".">>

\* an annotation record: 500000,0,2,=,chr1,160793649
Annotation(tag, rel, contig, offset) ==
    <<<<ToString(tag)>>, <<"0">>, <<"2">>, <<rel>>, contig, <<ToString(offset)>>>>

FileA == <<"a">> \o AnnotationSuffix
FileB == <<"b">> \o AnnotationSuffix
FileOther == <<"b", ".", "c", "s", "v">>
CsvName == <<"x", ".", "c", "s", "v">>
PngName == <<"o", ".", "p", "n", "g">>
BareName == <<"o">>

IdlePlot ==
    /\ samplelist = <<>> /\ samples = <<>> /\ phenotype = <<>>
    /\ cat1col = 1 /\ cat2col = -1 /\ ppc = "idle" /\ nread = 0
    /\ labels = EmptyDict /\ category = EmptyDict /\ colors = <<>>
    /\ points = <<>>

IdleManhattan ==
    /\ columns = <<>> /\ dirents = <<>> /\ csv_threshold = 0
    /\ csv_output_path = <<>> /\ output_path = <<>> /\ pc = "idle"
    /\ pvalue = EmptyDict /\ tilepos = EmptyDict /\ scanned = <<>>
    /\ csvfile = [opened |-> FALSE, lines |-> <<>>] /\ series = <<>>
    /\ chroms = EmptyDict /\ plotted = <<>>

\* the state of manhattan.py before its first statement
StartManhattan ==
    /\ pc = "load"
    /\ pvalue = EmptyDict /\ tilepos = EmptyDict /\ scanned = <<>>
    /\ csvfile = [opened |-> FALSE, lines |-> <<>>] /\ series = <<>>
    /\ chroms = EmptyDict /\ plotted = <<>>

\* The join family: two tags, two chromosomes, scores at and below the
\* threshold, two directory entries: a.annotations.csv with up to MaxRows
\* records, and either b.annotations.csv with at most one record or a file
\* of another name.
RowsJoin ==
    {Annotation(1, "=", chr1, 5), Annotation(1, "=", chr2, 5),
     Annotation(2, "=", chr1, 5), Annotation(2, "!", chr2, 7)}

FilesJoin == SeqsUpTo(RowsJoin, MaxRows)

DirsJoin ==
    {<<[name |-> FileA, rows |-> r1], e2>> :
        r1 \in FilesJoin,
        e2 \in {[name |-> FileB, rows |-> r2] : r2 \in SeqsUpTo(RowsJoin, 1)}
                 \cup {[name |-> FileOther,
                        rows |-> <<Annotation(1, "=", chr2, 7)>>]}}

ColsJoin ==
    SeqsUpTo([tag : {1, 2}, raw : {10000000, 11000000}], MaxCols)

ArgsJoin ==
    {[t |-> 10, d |-> CsvName], [t |-> 0, d |-> CsvName], [t |-> 10, d |-> <<>>]}

InitJoin ==
    /\ columns \in ColsJoin
    /\ dirents \in DirsJoin
    /\ \E a \in ArgsJoin : csv_threshold = a.t /\ csv_output_path = a.d
    /\ output_path = PngName
    /\ StartManhattan
    /\ IdlePlot

SpecJoin == InitJoin /\ [][MNext]_vars

\* The ordering family: one annotation file of MaxTiles tiles, one score
\* each, over chromosome names that exercise the sort key.
NamesOrder == {chr3, chr20, chr100, chrX, bare3, chr2dot}

DirsOrder ==
    {<<[name |-> FileA,
        rows |-> [t \in 1..MaxTiles |-> Annotation(t, "=", c[t], o[t])]]>> :
        c \in [1..MaxTiles -> NamesOrder], o \in [1..MaxTiles -> {1, 2}]}

InitOrder ==
    /\ columns = [t \in 1..MaxTiles |-> [tag |-> t, raw |-> 11000000]]
    /\ dirents \in DirsOrder
    /\ csv_threshold = 10 /\ csv_output_path = CsvName
    /\ output_path \in {PngName, BareName}
    /\ StartManhattan
    /\ IdlePlot

SpecOrder == InitOrder /\ [][MNext]_vars

\* The phenotype family
HG00100 == <<"H", "G", "0", "0", "1", "0", "0">>
HG001005 == <<"H", "G", "0", "0", "1", "0", "0", "5">>
NA12878 == <<"N", "A", "1", "2", "8", "7", "8">>

SampleRows == {<<<<ToString(i)>>, id>> : i \in {0}, id \in {HG00100, HG001005, NA12878}}
HeaderRow == <<<<"I", "n", "d", "e", "x">>, <<"S", "a", "m", "p", "l", "e">>>>

PhenRows ==
    {<<tok, lab, flag>> :
        tok \in {HG00100, HG001005}, lab \in {"CEU", "XXX"}, flag \in {"0", "1"}}

InitPlot ==
    /\ \E body \in SeqsUpTo(SampleRows, MaxSamples) :
          samplelist \in {body, <<HeaderRow>> \o body}
    /\ phenotype \in SeqsUpTo(PhenRows, MaxPhen)
    /\ cat1col = 1
    /\ cat2col \in {-1, 2}
    /\ ppc = "samples" /\ samples = <<>> /\ nread = 0
    /\ labels = EmptyDict /\ category = EmptyDict /\ colors = <<>>
    /\ points = <<>>
    /\ IdleManhattan

SpecPlot == InitPlot /\ [][PNext]_vars

-----------------------------------------------------------------------------
(* Properties of manhattan.py *)

Range(f) == {f[i] : i \in DOMAIN f}

\* the orderings of a finite set, as sequences without repetition
Orderings(S) ==
    {f \in [1..Cardinality(S) -> S] : \A i, j \in DOMAIN f : i # j => f[i] # f[j]}

AfterSeries == pc \in {"chroms", "plot", "done", "failed"}

\* the annotation records read so far, in the order they were read
AnnotationsRead ==
    Concat([i \in 1..Len(scanned) |->
               IF EndsWith(dirents[scanned[i]].name, AnnotationSuffix)
               THEN dirents[scanned[i]].rows
               ELSE <<>>])

\* the primary records of tag t, in the order they were read
PrimaryOf(t) ==
    LET mine(r) == r[4] = <<"=">> /\ r[1] = <<ToString(t)>>
    IN SelectSeq(AnnotationsRead, mine)

TagsInInput ==
    {columns[i].tag : i \in DOMAIN columns}
      \cup {PyInt(r[1]) : r \in UNION {Range(dirents[d].rows) : d \in DOMAIN dirents}}

\* the tags that have a coordinate, and the coordinate of each
CoordTags == {t \in TagsInInput : PrimaryOf(t) # <<>>}

CoordOf(t) ==
    LET last == PrimaryOf(t)[Len(PrimaryOf(t))]
    IN <<last[5], PyInt(last[6])>>

\* the scores of tag t, in column order
ScoresOf(t) ==
    LET mine(c) == c.tag = t
        cs == SelectSeq(columns, mine)
    IN [i \in 1..Len(cs) |-> [e |-> cs[i].raw]]

RowsOfTag(t) ==
    [i \in 1..Len(ScoresOf(t)) |->
        [chrom |-> CoordOf(t)[1], pos |-> CoordOf(t)[2], p |-> ScoresOf(t)[i]]]

RECURSIVE TotalScores(_)
TotalScores(tags) ==
    IF tags = {} THEN 0
    ELSE LET t == CHOOSE x \in tags : TRUE
         IN Len(ScoresOf(t)) + TotalScores(tags \ {t})

\* C1: the series holds, for every tag that has a coordinate, one row per
\* score of that tag, with the tag's chromosome and position and the scores
\* in column order, the rows of one tag together; it holds nothing else, so
\* its length is the sum of the lengths of the score lists of those tags.
C1_JoinedRows ==
    AfterSeries =>
        /\ \E order \in Orderings(CoordTags) :
              series = Concat([i \in 1..Len(order) |-> RowsOfTag(order[i])])
        /\ Len(series) = TotalScores(CoordTags)

\* a tag with two different scores and a coordinate, a tag with a coordinate
\* and no score, both after the join
C1_Witness ==
    /\ pc = "done"
    /\ \E t, u \in CoordTags :
          /\ Len(ScoresOf(t)) = 2
          /\ ScoresOf(t)[1] # ScoresOf(t)[2]
          /\ ScoresOf(u) = <<>>

\* C2: the rows of one chromosome are contiguous, the chromosomes follow
\* each other in the order of the sort key, and the positions within one
\* chromosome do not decrease.
ContigKey(c) == SortKey(<<0, <<c, 0>>>>)

C2_GroupedByContig ==
    AfterSeries =>
        /\ \A i, j, k \in 1..Len(series) :
              (i < j /\ j < k /\ series[i].chrom = series[k].chrom)
                  => series[j].chrom = series[i].chrom
        /\ \A i, j \in 1..Len(series) :
              (i < j /\ series[i].chrom # series[j].chrom)
                  => ~KeyLess(ContigKey(series[j].chrom), ContigKey(series[i].chrom))
        /\ \A i, j \in 1..Len(series) :
              (i < j /\ series[i].chrom = series[j].chrom)
                  => series[i].pos <= series[j].pos

RECURSIVE TileposInOrder(_, _)
TileposInOrder(tp, order) ==
    IF order = <<>> THEN tp
    ELSE TileposInOrder(TileposEntry(tp, dirents[Head(order)]), Tail(order))

\* C3: the series is the one every order of visiting the directory's
\* entries yields.
C3_ListingOrderIndependent ==
    pc = "done" =>
        \A order \in Orderings(DOMAIN dirents) :
            series = BuildSeries(TileposInOrder(EmptyDict, order), pvalue)

ExportWanted == csv_threshold > 0 /\ csv_output_path # <<>>

BelowThreshold(p) == p.e > csv_threshold * 1000000

\* C4: with a positive threshold and a destination, the export is the
\* sub-sequence of the series whose p is below 10^-threshold, in the order of
\* the series, each line with its tag; otherwise no file is opened.
C4_ThresholdExport ==
    /\ ~ExportWanted => (~csvfile.opened /\ csvfile.lines = <<>>)
    /\ (AfterSeries /\ ExportWanted) =>
          LET lines == csvfile.lines
              below(row) == BelowThreshold(row.p)
          IN /\ csvfile.opened
             /\ [i \in 1..Len(lines) |->
                    [chrom |-> lines[i][2], pos |-> lines[i][3], p |-> lines[i][4]]]
                  = SelectSeq(series, below)
             /\ \A i \in 1..Len(lines) :
                    /\ lines[i][1] \in CoordTags
                    /\ CoordOf(lines[i][1]) = <<lines[i][2], lines[i][3]>>
             /\ \A t \in TagsInInput :
                    LET mine(l) == l[1] = t
                        ls == SelectSeq(lines, mine)
                    IN [i \in 1..Len(ls) |-> ls[i][4]]
                         = IF t \in CoordTags
                           THEN SelectSeq(ScoresOf(t), BelowThreshold)
                           ELSE <<>>

\* an export that keeps some rows and drops others
C4_Witness ==
    /\ pc = "done"
    /\ csvfile.opened
    /\ Len(csvfile.lines) >= 1
    /\ Len(csvfile.lines) < Len(series)

\* C5: the plot files are the base name and, for each chromosome, the base
\* name with the chromosome before the extension: one more file than there
\* are chromosomes, no file written twice.
C5_DistinctArtifacts ==
    pc = "done" =>
        /\ Cardinality({plotted[i].file : i \in DOMAIN plotted})
             = Cardinality({series[i].chrom : i \in DOMAIN series}) + 1
        /\ \A i, j \in DOMAIN plotted :
              i # j => plotted[i].file # plotted[j].file
        /\ \A i \in DOMAIN plotted :
              plotted[i].chrom = NoneKey => plotted[i].file = output_path

IsDigit(ch) == ch \in {"0", "1", "2", "3", "4", "5", "6", "7", "8", "9"}

\* chr<m>, m a decimal numeral of at most maxdigits digits
IsChrNumber(c, maxdigits) ==
    /\ Len(c) > 3 /\ Len(c) <= 3 + maxdigits
    /\ SubSeq(c, 1, 3) = <<"c", "h", "r">>
    /\ \A i \in 4..Len(c) : IsDigit(c[i])

ChrNumber(c) == PyInt(SubSeq(c, 4, Len(c)))

\* the chromosomes of the series and of the export, in order
SeriesChroms == [i \in 1..Len(series) |-> series[i].chrom]
ExportChroms == [i \in 1..Len(csvfile.lines) |-> csvfile.lines[i][2]]

NumericalOrder(cs, maxdigits) ==
    \A i, j \in 1..Len(cs) :
        (/\ IsChrNumber(cs[i], maxdigits) /\ IsChrNumber(cs[j], maxdigits)
         /\ ChrNumber(cs[i]) < ChrNumber(cs[j])) => i < j

\* C9 as stated: chr<m> before chr<n> whenever m < n, whatever the number
\* of digits, and every name that ends in a non-digit after every name that
\* ends in a digit.
C9_NumericOrderAnyWidth ==
    AfterSeries =>
        /\ NumericalOrder(SeriesChroms, 9) /\ NumericalOrder(ExportChroms, 9)
        /\ \A cs \in {SeriesChroms, ExportChroms} :
              \A i, j \in 1..Len(cs) :
                  (~IsDigit(cs[i][Len(cs[i])]) /\ IsDigit(cs[j][Len(cs[j])]))
                      => j < i

\* C9, amended: chr<m> before chr<n> whenever m < n and both have at most
\* two digits; every name whose last character is above '9' in code-point
\* order after every name whose last character is '9' or below.
C9_NumericOrderTwoDigits ==
    AfterSeries =>
        /\ NumericalOrder(SeriesChroms, 2) /\ NumericalOrder(ExportChroms, 2)
        /\ \A cs \in {SeriesChroms, ExportChroms} :
              \A i, j \in 1..Len(cs) :
                  (/\ Ord(cs[i][Len(cs[i])]) > Ord("9")
                   /\ Ord(cs[j][Len(cs[j])]) <= Ord("9")) => j < i

\* chr3, chr20 and chrX all in the series and in the export
C9_Witness ==
    /\ pc = "done"
    /\ {chr3, chr20, chrX} \subseteq Range(SeriesChroms)
    /\ {chr3, chr20, chrX} \subseteq Range(ExportChroms)

\* C10: when the script has ended, every plot unit has been attempted.
C10_AllPartitionsAttempted ==
    pc \in {"done", "failed"} => Len(plotted) = Len(chroms)

-----------------------------------------------------------------------------
(* Properties of plot.py *)

AfterColors == ppc \in {"scatter", "done"}

\* tok occurs in id, stated position by position
Occurs(tok, id) ==
    \E k \in 0..(Len(id) - Len(tok)) : \A i \in 1..Len(tok) : id[k + i] = tok[i]

\* the phenotype rows whose token occurs in the sample identifier
MatchesOf(id) ==
    LET hit(r) == Occurs(r[1], id)
    IN SelectSeq(phenotype, hit)

\* C6: a matched sample has the label of the last row that matched it, and
\* is flagged exactly when the flag column is given and that row's flag is
\* not "0".
C6_LastMatchWins ==
    ppc = "done" =>
        \A i \in DOMAIN samples :
            MatchesOf(samples[i]) # <<>> =>
                LET last == MatchesOf(samples[i])[Len(MatchesOf(samples[i]))]
                IN /\ DictGet(labels, samples[i], "") = last[2]
                   /\ DictGet(category, samples[i], FALSE)
                        = (cat2col >= 0 /\ last[3] # "0")

\* C7: a sample has a label exactly when the token of some row occurs in
\* its identifier; a sample that no row matches has no label and no flag.
C7_SubstringMatch ==
    AfterColors =>
        \A i \in DOMAIN samples :
            /\ DictHas(labels, samples[i]) = (MatchesOf(samples[i]) # <<>>)
            /\ MatchesOf(samples[i]) = <<>> =>
                  (~DictHas(labels, samples[i]) /\ ~DictHas(category, samples[i]))

\* the token HG00100 has labelled HG00100 and HG001005, and no other
\* token was read
C7_Witness ==
    /\ ppc = "done"
    /\ samples = <<HG00100, HG001005>>
    /\ phenotype # <<>>
    /\ \A i \in DOMAIN phenotype : phenotype[i][1] = HG00100
    /\ DictHas(labels, HG00100) /\ DictHas(labels, HG001005)

PaletteColors == {labelcolors[i][2] : i \in DOMAIN labelcolors}

\* C8: colors has one entry per sample, in sample order: the table's colour
\* of the sample's label when the label is in the table, and grey, which is
\* no colour of the table, otherwise.
C8_ColorsFollowSamples ==
    AfterColors =>
        /\ Len(colors) = Len(samples)
        /\ unknown_color \notin PaletteColors
        /\ \A i \in DOMAIN samples :
              LET entries == {k \in DOMAIN labelcolors :
                                 /\ DictHas(labels, samples[i])
                                 /\ labelcolors[k][1] = DictGet(labels, samples[i], "")}
              IN IF entries = {}
                 THEN colors[i] = unknown_color
                 ELSE \A k \in entries : colors[i] = labelcolors[k][2]

\* a sample coloured from the table and a sample whose label is not in the
\* table, hence grey
C8_Witness ==
    /\ ppc = "done"
    /\ \E i, j \in DOMAIN samples :
          /\ colors[i] = "green"
          /\ DictGet(labels, samples[j], "") = "XXX"
          /\ colors[j] = unknown_color

====
